---- MODULE Spec2Model ----
(***************************************************************************)
(* A model of the MessageBird REST client (package messagebird):           *)
(* the request builders createRequest / createJSONRequest, the dispatcher  *)
(* Client.request, and the resource methods that funnel through them.      *)
(*                                                                         *)
(* Text is modelled as a sequence of pieces.  A piece is either one        *)
(* character ("a", "%", "&") or a literal of the source that holds no      *)
(* character the URL codec treats specially ("messages", "msisdn").        *)
(***************************************************************************)
EXTENDS Integers, Sequences, FiniteSets, TLC

VARIABLES
    client,        \* the Client struct: AccessKey, HTTPClient, DebugLog
    pc,            \* per call: where the call stands
    call,          \* per call: the resource method running and how it returns
    req,           \* per call: the *http.Request the builder produced
    v,             \* per call: the result container handed to Client.request
    response,      \* per call: what HTTPClient.Do returned
    responseBody,  \* per call: what ioutil.ReadAll returned
    err,           \* per call: the error Client.request returned
    ret,           \* per call: what the resource method returned to its caller
    sends,         \* per call: how many times HTTPClient.Do was entered
    out            \* the process-wide output stream (log.Printf / fmt.Printf)

vars == <<client, pc, call, req, v, response, responseBody, err, ret, sends, out>>

----------------------------------------------------------------------------
(* Constants of client.go *)

ClientVersion == "3.0.0"
RestEndpoint  == "https://rest.messagebird.com"
VoiceEndpoint == "https://voice.messagebird.com"

BalancePath       == "balance"
HLRPath           == "hlr"
MessagePath       == "messages"
MMSPath           == "mms"
VoiceMessagePath  == "voicemessages"
VerifyPath        == "verify"
LookupPath        == "lookup"
CallFlowPath      == "call-flows"
CallPath          == "calls"
LegPath           == "legs"
RecordingPath     == "recordings"
TranscriptionPath == "transcriptions"
WebhookPath       == "webhooks"

Get    == "GET"
Post   == "POST"
Delete == "Delete"

ErrResponse           == "The MessageBird API returned an error"
ErrUnexpectedResponse == "The MessageBird API is currently unavailable"

\* Go's nil error, and the errors of the standard library the code passes on.
nil            == "nil"
EscapeError    == "invalid URL escape"
SyntaxError    == "json: invalid character"
UnmarshalTypeError == "json: cannot unmarshal"
TransportError == "Do: transport error"
ReadError      == "ReadAll: read error"

----------------------------------------------------------------------------
(* Bounds of the model *)

\* The calls in flight at once under SpecConc; Spec runs the first alone.
Procs == {"c1", "c2"}
First == "c1"

\* Access keys a Client may be constructed with.
AccessKeys == {<<"k", "1">>, <<"k", "2">>}

\* Caller-supplied text: plain, empty, and with every character the form
\* encoding must escape.
Strs == {<<>>, <<"a", "&", "b", "=">>, <<" ", "+", "%", ",">>}

\* Caller-supplied resource identifiers; the second is an invalid URL escape.
Ids == {<<"i", "d">>, <<"%", "z">>}

\* Recipient lists.
RecipientLists == {<<<<"a">>>>, <<<<"a">>, <<" ", "+", "%", ",">>>>}

\* Status codes the server may answer with.
StatusCodes == {200, 201, 204, 404, 500}

\* The longest data list a response body carries.
MaxData == 1

----------------------------------------------------------------------------
(* net/url: escaping as used by url.Values.Encode and url.QueryUnescape *)

HexDigits == {"0", "1", "2", "3", "4", "5", "6", "7", "8", "9",
              "a", "b", "c", "d", "e", "f", "A", "B", "C", "D", "E", "F"}

\* The characters of the model's alphabet that QueryEscape must escape, with
\* their upper-case hex codes.
HexCode == (" " :> <<"2", "0">>) @@ ("&" :> <<"2", "6">>) @@ ("=" :> <<"3", "D">>)
        @@ ("%" :> <<"2", "5">>) @@ ("+" :> <<"2", "B">>) @@ ("," :> <<"2", "C">>)
        @@ ("?" :> <<"3", "F">>) @@ ("/" :> <<"2", "F">>)

shouldEscape(c) == c \in DOMAIN HexCode

\* url.QueryEscape: space becomes "+", a reserved byte becomes %XX.
RECURSIVE QueryEscape(_)
QueryEscape(s) ==
    IF s = <<>> THEN <<>>
    ELSE LET c == Head(s)
             e == IF c = " " THEN <<"+">>
                  ELSE IF shouldEscape(c) THEN <<"%">> \o HexCode[c]
                  ELSE <<c>>
         IN  e \o QueryEscape(Tail(s))

\* The byte a pair of hex digits stands for.
unhex(h1, h2) ==
    IF \E c \in DOMAIN HexCode : HexCode[c] = <<h1, h2>>
    THEN CHOOSE c \in DOMAIN HexCode : HexCode[c] = <<h1, h2>>
    ELSE "\\x" \o h1 \o h2

\* The validation pass of url.unescape: every "%" is followed by two hex digits.
RECURSIVE validEscapes(_)
validEscapes(s) ==
    IF s = <<>> THEN TRUE
    ELSE IF Head(s) = "%"
         THEN /\ Len(s) >= 3
              /\ s[2] \in HexDigits
              /\ s[3] \in HexDigits
              /\ validEscapes(SubSeq(s, 4, Len(s)))
         ELSE validEscapes(Tail(s))

RECURSIVE unescapeValid(_)
unescapeValid(s) ==
    IF s = <<>> THEN <<>>
    ELSE IF Head(s) = "%" THEN <<unhex(s[2], s[3])>> \o unescapeValid(SubSeq(s, 4, Len(s)))
    ELSE IF Head(s) = "+" THEN <<" ">> \o unescapeValid(Tail(s))
    ELSE <<Head(s)>> \o unescapeValid(Tail(s))

\* url.QueryUnescape: the text and the error.
QueryUnescape(s) ==
    IF validEscapes(s) THEN [s |-> unescapeValid(s), err |-> nil]
    ELSE [s |-> <<>>, err |-> EscapeError]

----------------------------------------------------------------------------
(* url.Values: a map from key to a list of values; keys are literals of the *)
(* source, values are caller text.                                          *)

\* The keys the resource methods use, in the byte order sort.Strings gives.
KeyOrder == <<"body", "msisdn", "originator", "recipient", "recipients",
              "reference", "token", "type">>

NoValues == [k \in {} |-> <<>>]

\* url.Values.Set
Set(params, key, value) == (key :> <<value>>) @@ params

\* One (key, value) pair per value, keys sorted, values in their order.
RECURSIVE pairsOf(_, _)
pairsOf(params, keys) ==
    IF keys = <<>> THEN <<>>
    ELSE [i \in 1..Len(params[Head(keys)]) |-> <<Head(keys), params[Head(keys)][i]>>]
         \o pairsOf(params, Tail(keys))

sortedKeys(params) == SelectSeq(KeyOrder, LAMBDA k : k \in DOMAIN params)

RECURSIVE encodePairs(_)
encodePairs(ps) ==
    IF ps = <<>> THEN <<>>
    ELSE LET rest == encodePairs(Tail(ps))
             \* buf.Len() > 0 writes "&" before every pair but the first
             one  == QueryEscape(<<Head(ps)[1]>>) \o <<"=">> \o QueryEscape(Head(ps)[2])
         IN  IF Len(ps) = 1 THEN one ELSE one \o <<"&">> \o rest

\* Encode with the escaping of the values left out.
RECURSIVE joinPairsRaw(_)
joinPairsRaw(ps) ==
    IF ps = <<>> THEN <<>>
    ELSE LET one == <<Head(ps)[1], "=">> \o Head(ps)[2]
         IN  IF Len(ps) = 1 THEN one ELSE one \o <<"&">> \o joinPairsRaw(Tail(ps))

Encode_unescaped(params) == joinPairsRaw(pairsOf(params, sortedKeys(params)))

\* url.Values.Encode: "k1=v1&k1=v2&k2=v3", sorted by key, everything escaped.
Encode(params) == encodePairs(pairsOf(params, sortedKeys(params)))

\* strings.Join
RECURSIVE Join(_, _)
Join(elems, sep) ==
    IF elems = <<>> THEN <<>>
    ELSE IF Len(elems) = 1 THEN Head(elems)
    ELSE Head(elems) \o sep \o Join(Tail(elems), sep)

----------------------------------------------------------------------------
(* encoding/json, as far as Client.request and createJSONRequest use it *)

NoFields == [k \in {} |-> 0]

JString(s) == [t |-> "string", s |-> s, a |-> <<>>]
JArray(a)  == [t |-> "array",  s |-> "",  a |-> a]

\* A response body: text that is no JSON at all, the JSON literal null, or a
\* JSON object given by its members.
Body(top, doc) == [top |-> top, doc |-> doc]

NotJSON     == Body("text", NoFields)                        \* internal error
JSONNull    == Body("null", NoFields)                        \* null
ErrorsBody  == Body("object", "errors" :> JArray(<<"code" :> JString("2")>>))
ObjectBody  == Body("object", "id" :> JString("x"))          \* {"id":"x"}
\* {"data":[{"id":"x"}, ...]} with n elements
ListBody(n) == Body("object", "data" :> JArray([i \in 1..n |-> "id" :> JString("x")]))
DataNotList == Body("object", ("data" :> JString("x")) @@ ("id" :> JArray(<<>>)))

Bodies == {NotJSON, JSONNull, ErrorsBody, ObjectBody, DataNotList}
              \cup {ListBody(n) : n \in 0..MaxData}

\* Result containers.  "object": a resource struct (Balance, Message, ...);
\* "list": a list wrapper (CallList, WebhookList, ...); "nil": no container.
Container(kind, id, data) == [kind |-> kind, ID |-> id, Data |-> data]
NoContainer  == Container("nil", "", <<>>)
ZeroObject   == Container("object", "", <<>>)
ZeroList     == Container("list", "", <<>>)

\* One element of a list wrapper's Data, decoded from a JSON object: a string
\* "id" sets ID, any other type of "id" is a type error that leaves it unset.
itemOf(o) ==
    IF "id" \in DOMAIN o /\ o["id"].t = "string" THEN o["id"].s ELSE ""
itemBad(o) == "id" \in DOMAIN o /\ o["id"].t # "string"

\* json.Unmarshal(body, &v) where v holds a pointer to container c.  Text that
\* is not JSON is refused before anything is stored; null stores nothing; a
\* member of the wrong type is skipped, the rest is stored, and the type error
\* is returned at the end.
Unmarshal(body, c) ==
    IF body.top = "text" THEN [v |-> c, err |-> SyntaxError]
    ELSE IF body.top = "null" THEN [v |-> c, err |-> nil]
    ELSE LET d == body.doc IN
         IF c.kind = "object"
         THEN IF "id" \notin DOMAIN d THEN [v |-> c, err |-> nil]
              ELSE IF d["id"].t = "string"
                   THEN [v |-> [c EXCEPT !.ID = d["id"].s], err |-> nil]
                   ELSE [v |-> c, err |-> UnmarshalTypeError]
         ELSE IF "data" \notin DOMAIN d THEN [v |-> c, err |-> nil]
              ELSE IF d["data"].t = "array"
                   THEN LET a == d["data"].a IN
                        [v   |-> [c EXCEPT !.Data = [i \in 1..Len(a) |-> itemOf(a[i])]],
                         err |-> IF \E i \in 1..Len(a) : itemBad(a[i])
                                 THEN UnmarshalTypeError ELSE nil]
                   ELSE [v |-> c, err |-> UnmarshalTypeError]

\* json.Marshal of a builder's params: a nil interface, or a nil pointer in
\* it, is the four bytes null; a params struct is an object.
NilParams == [kind |-> "json", nil |-> TRUE, values |-> [k \in {} |-> <<>>], fields |-> <<>>]
Struct(fields) == [kind |-> "json", nil |-> FALSE, values |-> [k \in {} |-> <<>>], fields |-> fields]
Marshal(params) ==
    IF params.nil THEN <<"null">> ELSE <<"{">> \o params.fields \o <<"}">>

----------------------------------------------------------------------------
(* net/http: requests *)

NoHeader == [h \in {} |-> <<>>]
HeaderSet(h, key, value) == (key :> <<value>>) @@ h
HeaderAdd(h, key, value) ==
    (key :> (IF key \in DOMAIN h THEN h[key] ELSE <<>>) \o <<value>>) @@ h

NoBody == [present |-> FALSE, bytes |-> <<>>]
BodyOf(bytes) == [present |-> TRUE, bytes |-> bytes]

Request(method, url, body, header) ==
    [Method |-> method, URL |-> url, Body |-> body, Header |-> header]
NoRequest == Request("", <<>>, NoBody, NoHeader)

\* url.Parse(endpoint + "/" + path): the only failure the pieces of a resource
\* path can cause is an invalid percent escape.
urlParse(rawurl) ==
    IF validEscapes(rawurl) THEN [uri |-> rawurl, err |-> nil]
    ELSE [uri |-> <<>>, err |-> EscapeError]

\* The headers both builders add last.
\* runtime.Version() of the build
runtimeVersion == "go1.11"
UserAgent == <<"MessageBird/ApiClient", "/", ClientVersion, " ", "Go", "/", runtimeVersion>>
commonHeaders(c, h) ==
    HeaderAdd(HeaderAdd(HeaderAdd(h,
        "Accept", <<"application/json">>),
        "Authorization", <<"AccessKey ">> \o c.AccessKey),
        "User-Agent", UserAgent)

\* A line written to the process's output by log.Printf or by fmt.Printf: the
\* format's prefix, then request text or a response body.
NoneBody == Body("none", NoFields)
Line(by, prefix, text, body) == [by |-> by, prefix |-> prefix, text |-> text, body |-> body]

\* What a builder returns, the lines it logged, and the params it was given.
Built(request, e, log, params) ==
    [request |-> request, err |-> e, log |-> log, params |-> params]

\* A *url.Values argument: nil, or a pointer to a map.
NilValues == [kind |-> "form", nil |-> TRUE, values |-> NoValues, fields |-> <<>>]
Values(m) == [kind |-> "form", nil |-> FALSE, values |-> m, fields |-> <<>>]

\* Client.createRequest
createRequest(c, method, endpoint, path, params) ==
    LET u == urlParse(<<endpoint, "/">> \o path) IN
    IF u.err # nil THEN Built(NoRequest, u.err, <<>>, params)
    ELSE IF ~params.nil
    THEN LET body == Encode(params.values)
             un   == QueryUnescape(body)
             line == Line("log.Printf", "HTTP REQUEST: ",
                          <<method, " ">> \o u.uri \o <<" ">>
                              \o (IF un.err = nil THEN un.s ELSE body),
                          NoneBody)
         IN  Built(Request(method, u.uri, BodyOf(body),
                           commonHeaders(c, HeaderSet(NoHeader, "Content-Type",
                                         <<"application/x-www-form-urlencoded">>))),
                   nil,
                   IF c.DebugLog THEN <<line>> ELSE <<>>,
                   params)
    ELSE Built(Request(method, u.uri, NoBody, commonHeaders(c, NoHeader)),
               nil,
               IF c.DebugLog
               THEN <<Line("log.Printf", "HTTP REQUEST: ", <<method, " ">> \o u.uri,
                           NoneBody)>>
               ELSE <<>>,
               params)

\* createJSONRequest without its copy of the Authorization line.
createJSONRequest_noAuthorization(c, method, endpoint, path, params) ==
    LET u == urlParse(<<endpoint, "/">> \o path) IN
    IF u.err # nil THEN Built(NoRequest, u.err, <<>>, params)
    ELSE Built(Request(method, u.uri, BodyOf(Marshal(params)),
                       HeaderAdd(HeaderAdd(HeaderSet(NoHeader,
                           "Content-Type", <<"application/json">>),
                           "Accept", <<"application/json">>),
                           "User-Agent", UserAgent)),
               nil, <<>>, params)

\* Client.createJSONRequest
createJSONRequest(c, method, endpoint, path, params) ==
    LET u == urlParse(<<endpoint, "/">> \o path) IN
    IF u.err # nil THEN Built(NoRequest, u.err, <<>>, params)
    ELSE Built(Request(method, u.uri, BodyOf(Marshal(params)),
                       commonHeaders(c, HeaderSet(NoHeader, "Content-Type",
                                                  <<"application/json">>))),
               nil, <<>>, params)

----------------------------------------------------------------------------
(* The per-resource parameter helpers (paramsForMessage, paramsForLookup,  *)
(* ...): the populated optional fields become key/value pairs, the unset   *)
(* ones are omitted; the message helpers can fail.                         *)

ParamsInputs ==
    { [valid |-> TRUE,  type |-> <<>>,    reference |-> <<>>],
      [valid |-> TRUE,  type |-> <<"a">>, reference |-> <<"a", "&", "b", "=">>],
      [valid |-> FALSE, type |-> <<>>,    reference |-> <<>>] }

ParamsError == "params: invalid"

paramsFor(in) ==
    IF ~in.valid THEN [values |-> NoValues, err |-> ParamsError]
    ELSE [values |-> (IF in.type = <<>> THEN NoValues ELSE "type" :> <<in.type>>)
                     @@ (IF in.reference = <<>> THEN NoValues
                         ELSE "reference" :> <<in.reference>>),
          err |-> nil]

\* The params structs a caller hands to the JSON builder's methods.
JSONParams == {Struct(<<"title", "a">>), Struct(<<"title", "b">>)}

----------------------------------------------------------------------------
(* State *)

NoResponse == [StatusCode |-> 0, Body |-> NoneBody, readable |-> FALSE]
NoCall     == [name |-> "", single |-> FALSE, passErr |-> FALSE, errOnly |-> FALSE,
               params |-> NilValues]
NotReturned == [kind |-> "pending", value |-> NoContainer, err |-> nil]

Returned(kind, value, e) == [kind |-> kind, value |-> value, err |-> e]

\* New(AccessKey), with DebugLog left nil or set by the embedder afterwards.
New(AccessKey, debug) ==
    [AccessKey |-> AccessKey, HTTPClient |-> "http.Client", DebugLog |-> debug]

Init ==
    /\ client \in {New(k, d) : k \in AccessKeys, d \in BOOLEAN}
    /\ pc = [p \in Procs |-> "idle"]
    /\ call = [p \in Procs |-> NoCall]
    /\ req = [p \in Procs |-> NoRequest]
    /\ v = [p \in Procs |-> NoContainer]
    /\ response = [p \in Procs |-> NoResponse]
    /\ responseBody = [p \in Procs |-> NoneBody]
    /\ err = [p \in Procs |-> nil]
    /\ ret = [p \in Procs |-> NotReturned]
    /\ sends = [p \in Procs |-> 0]
    /\ out = <<>>

----------------------------------------------------------------------------
(* The resource methods, up to the call of Client.request *)

\* The method returns before building: a params helper failed.
Fail(p, name, e) ==
    /\ pc[p] = "idle"
    /\ pc' = [pc EXCEPT ![p] = "done"]
    /\ call' = [call EXCEPT ![p] = [NoCall EXCEPT !.name = name]]
    /\ ret' = [ret EXCEPT ![p] = Returned("nil", NoContainer, e)]
    /\ UNCHANGED <<client, req, v, response, responseBody, err, sends, out>>

\* The common opening of every resource method: build the request, return
\* (nil, err) when that fails, else make the zero container and go on to
\* c.request(container, request).
Invoke(p, name, built, container, single, passErr) ==
    /\ pc[p] = "idle"
    /\ call' = [call EXCEPT ![p] = [name |-> name, single |-> single,
                                    passErr |-> passErr,
                                    errOnly |-> (container.kind = "nil"),
                                    params |-> built.params]]
    /\ out' = out \o built.log
    /\ IF built.err # nil
       THEN /\ pc' = [pc EXCEPT ![p] = "done"]
            /\ ret' = [ret EXCEPT ![p] =
                         Returned(IF container.kind = "nil" THEN "error-only" ELSE "nil",
                                  NoContainer, built.err)]
            /\ UNCHANGED <<req, v>>
       ELSE /\ pc' = [pc EXCEPT ![p] = "built"]
            /\ req' = [req EXCEPT ![p] = built.request]
            /\ v' = [v EXCEPT ![p] = container]
            /\ UNCHANGED ret
    /\ UNCHANGED <<client, response, responseBody, err, sends>>

Balance(p) ==
    Invoke(p, "Balance",
           createRequest(client, Get, RestEndpoint, <<BalancePath>>, NilValues),
           ZeroObject, FALSE, TRUE)

HLR(p) == \E id \in Ids :
    Invoke(p, "HLR",
           createRequest(client, Get, RestEndpoint, <<HLRPath, "/">> \o id, NilValues),
           ZeroObject, FALSE, TRUE)

HLRs(p) ==
    Invoke(p, "HLRs",
           createRequest(client, Get, RestEndpoint, <<HLRPath>>, NilValues),
           ZeroObject, FALSE, TRUE)

NewHLR(p) == \E msisdn \in Strs, reference \in Strs :
    Invoke(p, "NewHLR",
           createRequest(client, Post, RestEndpoint, <<HLRPath>>,
                         Values(("msisdn" :> <<msisdn>>) @@ ("reference" :> <<reference>>))),
           ZeroObject, FALSE, TRUE)

Message(p) == \E id \in Ids :
    Invoke(p, "Message",
           createRequest(client, Get, RestEndpoint, <<MessagePath, "/">> \o id, NilValues),
           ZeroObject, FALSE, TRUE)

Messages(p) ==
    Invoke(p, "Messages",
           createRequest(client, Get, RestEndpoint, <<MessagePath>>, NilValues),
           ZeroObject, FALSE, TRUE)

NewMessage(p) ==
    \E originator \in Strs, recipients \in RecipientLists, body \in Strs,
       msgParams \in ParamsInputs :
        LET params == paramsFor(msgParams) IN
        IF params.err # nil THEN Fail(p, "NewMessage", params.err)
        ELSE Invoke(p, "NewMessage",
                    createRequest(client, Post, RestEndpoint, <<MessagePath>>,
                        Values(Set(Set(Set(params.values,
                            "originator", originator),
                            "body", body),
                            "recipients", Join(recipients, <<",">>)))),
                    ZeroObject, FALSE, TRUE)

MMSMessage(p) == \E id \in Ids :
    Invoke(p, "MMSMessage",
           createRequest(client, Get, RestEndpoint, <<MMSPath, "/">> \o id, NilValues),
           ZeroObject, FALSE, TRUE)

NewMMSMessage(p) ==
    \E originator \in Strs, recipients \in RecipientLists, msgParams \in ParamsInputs :
        LET params == paramsFor(msgParams) IN
        IF params.err # nil THEN Fail(p, "NewMMSMessage", params.err)
        ELSE Invoke(p, "NewMMSMessage",
                    createRequest(client, Post, RestEndpoint, <<MMSPath>>,
                        Values(Set(Set(params.values,
                            "originator", originator),
                            "recipients", Join(recipients, <<",">>)))),
                    ZeroObject, FALSE, TRUE)

VoiceMessage(p) == \E id \in Ids :
    Invoke(p, "VoiceMessage",
           createRequest(client, Get, RestEndpoint, <<VoiceMessagePath, "/">> \o id, NilValues),
           ZeroObject, FALSE, TRUE)

VoiceMessages(p) ==
    Invoke(p, "VoiceMessages",
           createRequest(client, Get, RestEndpoint, <<VoiceMessagePath>>, NilValues),
           ZeroObject, FALSE, TRUE)

NewVoiceMessage(p) ==
    \E recipients \in RecipientLists, body \in Strs,
       params \in {in \in ParamsInputs : in.valid} :
        Invoke(p, "NewVoiceMessage",
               createRequest(client, Post, RestEndpoint, <<VoiceMessagePath>>,
                   Values(Set(Set(paramsFor(params).values,
                       "body", body),
                       "recipients", Join(recipients, <<",">>)))),
               ZeroObject, FALSE, TRUE)

NewVerify(p) ==
    \E recipient \in Strs, params \in {in \in ParamsInputs : in.valid} :
        Invoke(p, "NewVerify",
               createRequest(client, Post, RestEndpoint, <<VerifyPath>>,
                   Values(Set(paramsFor(params).values, "recipient", recipient))),
               ZeroObject, FALSE, TRUE)

VerifyToken(p) == \E id \in Ids, token \in Strs :
    Invoke(p, "VerifyToken",
           createRequest(client, Get, RestEndpoint,
               <<VerifyPath, "/">> \o id \o <<"?">> \o Encode(Set(NoValues, "token", token)),
               NilValues),
           ZeroObject, FALSE, TRUE)

Lookup(p) ==
    \E phoneNumber \in Ids, params \in {in \in ParamsInputs : in.valid} :
        Invoke(p, "Lookup",
               createRequest(client, Get, RestEndpoint,
                   <<LookupPath, "/">> \o phoneNumber \o <<"?">>
                       \o Encode(paramsFor(params).values),
                   NilValues),
               ZeroObject, FALSE, TRUE)

NewLookupHLR(p) ==
    \E phoneNumber \in Ids, params \in {in \in ParamsInputs : in.valid} :
        Invoke(p, "NewLookupHLR",
               createRequest(client, Post, RestEndpoint,
                   <<LookupPath, "/">> \o phoneNumber \o <<"/", "hlr">>,
                   Values(paramsFor(params).values)),
               ZeroObject, FALSE, TRUE)

LookupHLR(p) ==
    \E phoneNumber \in Ids, params \in {in \in ParamsInputs : in.valid} :
        Invoke(p, "LookupHLR",
               createRequest(client, Get, RestEndpoint,
                   <<LookupPath, "/">> \o phoneNumber \o <<"/", "hlr", "?">>
                       \o Encode(paramsFor(params).values),
                   NilValues),
               ZeroObject, FALSE, TRUE)

CallFlow(p) == \E id \in Ids :
    Invoke(p, "CallFlow",
           createRequest(client, Get, VoiceEndpoint, <<CallFlowPath, "/">> \o id, NilValues),
           ZeroList, TRUE, TRUE)

CallFlows(p) ==
    Invoke(p, "CallFlows",
           createRequest(client, Get, VoiceEndpoint, <<CallFlowPath>>, NilValues),
           ZeroList, FALSE, FALSE)

NewCallFlow(p) == \E params \in JSONParams :
    Invoke(p, "NewCallFlow",
           createJSONRequest(client, Post, VoiceEndpoint, <<CallFlowPath>>, params),
           ZeroList, TRUE, FALSE)

Call(p) == \E id \in Ids :
    Invoke(p, "Call",
           createRequest(client, Get, VoiceEndpoint, <<CallPath, "/">> \o id, NilValues),
           ZeroList, TRUE, FALSE)

Calls(p) ==
    Invoke(p, "Calls",
           createRequest(client, Get, VoiceEndpoint, <<CallPath>>, NilValues),
           ZeroList, FALSE, FALSE)

NewCall(p) == \E params \in JSONParams :
    Invoke(p, "NewCall",
           createJSONRequest(client, Post, VoiceEndpoint, <<CallPath>>, params),
           ZeroList, TRUE, TRUE)

Leg(p) == \E callID \in Ids, legID \in Ids :
    Invoke(p, "Leg",
           createRequest(client, Get, VoiceEndpoint,
               <<CallPath, "/">> \o callID \o <<"/", LegPath, "/">> \o legID, NilValues),
           ZeroList, TRUE, FALSE)

Legs(p) == \E callID \in Ids :
    Invoke(p, "Legs",
           createRequest(client, Get, VoiceEndpoint,
               <<CallPath, "/">> \o callID \o <<"/", LegPath>>, NilValues),
           ZeroList, FALSE, FALSE)

Recording(p) == \E callID \in Ids, legID \in Ids, recordingID \in Ids :
    Invoke(p, "Recording",
           createRequest(client, Get, VoiceEndpoint,
               <<CallPath, "/">> \o callID \o <<"/", LegPath, "/">> \o legID
                   \o <<"/", RecordingPath, "/">> \o recordingID, NilValues),
           ZeroList, TRUE, FALSE)

Recordings(p) == \E callID \in Ids, legID \in Ids :
    Invoke(p, "Recordings",
           createRequest(client, Get, VoiceEndpoint,
               <<CallPath, "/">> \o callID \o <<"/", LegPath, "/">> \o legID
                   \o <<"/", RecordingPath>>, NilValues),
           ZeroList, FALSE, FALSE)

Transcription(p) ==
    \E callID \in Ids, legID \in Ids, recordingID \in Ids, transcriptionID \in Ids :
        Invoke(p, "Transcription",
               createRequest(client, Get, VoiceEndpoint,
                   <<CallPath, "/">> \o callID \o <<"/", LegPath, "/">> \o legID
                       \o <<"/", RecordingPath, "/">> \o recordingID
                       \o <<"/", TranscriptionPath, "/">> \o transcriptionID, NilValues),
               ZeroList, TRUE, FALSE)

\* The recording's ID is a parameter of both methods below, and neither puts
\* it in the path.
Transcriptions(p) == \E callID \in Ids, legID \in Ids :
    Invoke(p, "Transcriptions",
           createRequest(client, Get, VoiceEndpoint,
               <<CallPath, "/">> \o callID \o <<"/", LegPath, "/">> \o legID
                   \o <<"/", RecordingPath, "/", TranscriptionPath>>, NilValues),
           ZeroList, FALSE, FALSE)

NewTranscriptionRequest(p) == \E callID \in Ids, legID \in Ids :
    Invoke(p, "NewTranscriptionRequest",
           createJSONRequest(client, Post, VoiceEndpoint,
               <<CallPath, "/">> \o callID \o <<"/", LegPath, "/">> \o legID
                   \o <<"/", RecordingPath, "/", TranscriptionPath>>, NilParams),
           ZeroList, TRUE, FALSE)

Webhook(p) == \E id \in Ids :
    Invoke(p, "Webhook",
           createRequest(client, Get, VoiceEndpoint, <<WebhookPath, "/">> \o id, NilValues),
           ZeroList, TRUE, TRUE)

Webhooks(p) ==
    Invoke(p, "Webhooks",
           createRequest(client, Get, VoiceEndpoint, <<WebhookPath>>, NilValues),
           ZeroList, FALSE, TRUE)

NewWebhook(p) == \E params \in JSONParams :
    Invoke(p, "NewWebhook",
           createJSONRequest(client, Post, VoiceEndpoint, <<WebhookPath>>, params),
           ZeroList, TRUE, TRUE)

DeleteWebhook(p) == \E id \in Ids :
    Invoke(p, "DeleteWebhook",
           createRequest(client, Delete, VoiceEndpoint, <<WebhookPath, "/">> \o id, NilValues),
           NoContainer, FALSE, TRUE)

----------------------------------------------------------------------------
(* Client.request, step by step *)

\* What the server may answer: a status code with a body stream, which
\* carries one of the bodies or breaks while it is read (NoneBody).
Response(status, body) ==
    [StatusCode |-> status, Body |-> body, readable |-> body # NoneBody]

Responses == {Response(s, b) : s \in StatusCodes, b \in Bodies \cup {NoneBody}}

\* The answers to the calls that run concurrently.
ConcResponses ==
    {Response(s, b) : s \in {200, 404, 500},
                      b \in {NotJSON, ObjectBody, ListBody(1), NoneBody}}

\* HTTPClient.Do with a retry: after a transport failure the request is sent
\* again, up to three times.
requestDo_retry(p, answers) ==
    /\ pc[p] = "built"
    /\ sends' = [sends EXCEPT ![p] = @ + 1]
    /\ \/ /\ err' = [err EXCEPT ![p] = TransportError]
          /\ pc' = [pc EXCEPT ![p] = IF sends[p] < 2 THEN "built" ELSE "returned"]
          /\ UNCHANGED response
       \/ \E answer \in answers :
            /\ response' = [response EXCEPT ![p] = answer]
            /\ pc' = [pc EXCEPT ![p] = "sent"]
            /\ UNCHANGED err
    /\ UNCHANGED <<client, call, req, v, responseBody, ret, out>>

\* c.HTTPClient.Do(request): a transport failure returns its error; else one
\* of the server's answers arrives.
requestDo(p, answers) ==
    /\ pc[p] = "built"
    /\ sends' = [sends EXCEPT ![p] = @ + 1]
    /\ \/ /\ err' = [err EXCEPT ![p] = TransportError]
          /\ pc' = [pc EXCEPT ![p] = "returned"]
          /\ UNCHANGED response
       \/ \E answer \in answers :
            /\ response' = [response EXCEPT ![p] = answer]
            /\ pc' = [pc EXCEPT ![p] = "sent"]
            /\ UNCHANGED err
    /\ UNCHANGED <<client, call, req, v, responseBody, ret, out>>

\* ioutil.ReadAll(response.Body)
requestReadAll(p) ==
    /\ pc[p] = "sent"
    /\ IF response[p].readable
       THEN /\ responseBody' = [responseBody EXCEPT ![p] = response[p].Body]
            /\ pc' = [pc EXCEPT ![p] = "read"]
            /\ UNCHANGED err
       ELSE /\ err' = [err EXCEPT ![p] = ReadError]
            /\ pc' = [pc EXCEPT ![p] = "returned"]
            /\ UNCHANGED responseBody
    /\ UNCHANGED <<client, call, req, v, response, ret, sends, out>>

\* The lines Client.request writes once the body is read.
responseLines(c, body) ==
    (IF c.DebugLog THEN <<Line("log.Printf", "HTTP RESPONSE: ", <<>>, body)>> ELSE <<>>)
    \o <<Line("fmt.Printf", "HTTP RESPONSE: ", <<>>, body)>>

requestPrint(p) ==
    /\ pc[p] = "read"
    /\ out' = out \o responseLines(client, responseBody[p])
    /\ pc' = [pc EXCEPT ![p] = "printed"]
    /\ UNCHANGED <<client, call, req, v, response, responseBody, err, ret, sends>>

\* The decode step of Client.request: skipped when no container was passed.
decode(container, body) ==
    IF container.kind # "nil" THEN Unmarshal(body, container)
    ELSE [v |-> container, err |-> nil]

\* Variants of classify with one slip each: the decode moved before the 500
\* test; the status decided before the decode; a decode error overruled by
\* the status; every 2xx taken for success.
classify_decodeFirst(container, StatusCode, body) ==
    LET d == decode(container, body) IN
    IF StatusCode = 500 THEN [v |-> d.v, err |-> ErrUnexpectedResponse]
    ELSE IF d.err # nil THEN d
    ELSE IF StatusCode = 200 \/ StatusCode = 201 THEN [v |-> d.v, err |-> nil]
    ELSE [v |-> d.v, err |-> ErrResponse]

classify_statusFirst(container, StatusCode, body) ==
    IF StatusCode = 500 THEN [v |-> container, err |-> ErrUnexpectedResponse]
    ELSE IF ~(StatusCode = 200 \/ StatusCode = 201)
         THEN [v |-> container, err |-> ErrResponse]
    ELSE decode(container, body)

classify_statusOverrules(container, StatusCode, body) ==
    IF StatusCode = 500 THEN [v |-> container, err |-> ErrUnexpectedResponse]
    ELSE LET d == decode(container, body) IN
         IF StatusCode = 200 \/ StatusCode = 201 THEN [v |-> d.v, err |-> nil]
         ELSE [v |-> d.v, err |-> ErrResponse]

classify_any2xx(container, StatusCode, body) ==
    IF StatusCode = 500 THEN [v |-> container, err |-> ErrUnexpectedResponse]
    ELSE LET d == decode(container, body) IN
         IF d.err # nil THEN d
         ELSE IF StatusCode \in 200..299 THEN [v |-> d.v, err |-> nil]
         ELSE [v |-> d.v, err |-> ErrResponse]

\* The rest of Client.request: 500 first, then the decode when a container
\* was passed, then the status code.
classify(container, StatusCode, body) ==
    IF StatusCode = 500 THEN [v |-> container, err |-> ErrUnexpectedResponse]
    ELSE LET d == decode(container, body)
         IN  IF d.err # nil THEN d
             ELSE IF StatusCode = 200 \/ StatusCode = 201 THEN [v |-> d.v, err |-> nil]
             ELSE [v |-> d.v, err |-> ErrResponse]

\* The decode reading the body back from the last line written to the shared
\* output instead of from the call's own responseBody.
decoded_lastPrinted(p) == out[Len(out)].body

\* The body the decode reads: the local responseBody.
decoded(p) == responseBody[p]

requestClassify(p) ==
    /\ pc[p] = "printed"
    /\ LET r == classify(v[p], response[p].StatusCode, decoded(p)) IN
         /\ v' = [v EXCEPT ![p] = r.v]
         /\ err' = [err EXCEPT ![p] = r.err]
    /\ pc' = [pc EXCEPT ![p] = "returned"]
    /\ UNCHANGED <<client, call, req, response, responseBody, ret, sends, out>>

----------------------------------------------------------------------------
(* The resource methods, after Client.request returned *)

\* What a method hands back from its container: the container itself, or
\* element zero of its Data; indexing an empty Data panics.
resultOf(single, container) ==
    IF ~single THEN [kind |-> "value", value |-> container]
    ELSE IF container.Data = <<>> THEN [kind |-> "panic", value |-> NoContainer]
    ELSE [kind |-> "value", value |-> Container("object", container.Data[1], <<>>)]

\* return handing the container back whatever the error.
return_keepsContainer(c, container, e) ==
    IF c.errOnly THEN Returned("error-only", NoContainer, e)
    ELSE LET r == resultOf(c.single, container) IN
         Returned(r.kind, r.value,
                  IF r.kind = "panic" THEN nil
                  ELSE IF e = ErrResponse /\ ~c.passErr THEN nil ELSE e)

return(c, container, e) ==
    IF c.errOnly THEN Returned("error-only", NoContainer, e)
    ELSE IF e = nil
         THEN LET r == resultOf(c.single, container) IN Returned(r.kind, r.value, nil)
    ELSE IF e = ErrResponse
         THEN LET r == resultOf(c.single, container) IN
              Returned(r.kind, r.value,
                       IF r.kind = "panic" THEN nil ELSE IF c.passErr THEN e ELSE nil)
    ELSE Returned("nil", NoContainer, e)

Return(p) ==
    /\ pc[p] = "returned"
    /\ ret' = [ret EXCEPT ![p] = return(call[p], v[p], err[p])]
    /\ pc' = [pc EXCEPT ![p] = "done"]
    /\ UNCHANGED <<client, call, req, v, response, responseBody, err, sends, out>>

----------------------------------------------------------------------------
(* Specifications *)

ResourceMethod(p) ==
    \/ Balance(p) \/ HLR(p) \/ HLRs(p) \/ NewHLR(p)
    \/ Message(p) \/ Messages(p) \/ NewMessage(p)
    \/ MMSMessage(p) \/ NewMMSMessage(p)
    \/ VoiceMessage(p) \/ VoiceMessages(p) \/ NewVoiceMessage(p)
    \/ NewVerify(p) \/ VerifyToken(p)
    \/ Lookup(p) \/ NewLookupHLR(p) \/ LookupHLR(p)
    \/ CallFlow(p) \/ CallFlows(p) \/ NewCallFlow(p)
    \/ Call(p) \/ Calls(p) \/ NewCall(p)
    \/ Leg(p) \/ Legs(p)
    \/ Recording(p) \/ Recordings(p)
    \/ Transcription(p) \/ Transcriptions(p) \/ NewTranscriptionRequest(p)
    \/ Webhook(p) \/ Webhooks(p) \/ NewWebhook(p) \/ DeleteWebhook(p)

Steps(p, answers) ==
    \/ requestDo(p, answers)
    \/ requestReadAll(p) \/ requestPrint(p) \/ requestClassify(p)
    \/ Return(p)

\* One call on a client, from the resource method to its return.
Next == ResourceMethod(First) \/ Steps(First, Responses)

Spec == Init /\ [][Next]_vars

\* Calls on one client from several goroutines at once, their steps
\* interleaved in every order.
ConcMethod(p) == Balance(p) \/ CallFlows(p) \/ Webhook(p) \/ DeleteWebhook(p)

NextConc == \E p \in Procs : ConcMethod(p) \/ Steps(p, ConcResponses)

SpecConc == Init /\ [][NextConc]_vars

----------------------------------------------------------------------------
(* Properties of Client.request *)

\* The container a resource method passes to Client.request, as it was made.
ZeroOf(container) == Container(container.kind, "", <<>>)

\* Client.request has returned to the resource method running call p.
requestReturned(p) == pc[p] = "returned" \/ (pc[p] = "done" /\ sends[p] > 0)

\* The response of call p arrived and its body was read in full.
bodyRead(p) == requestReturned(p) /\ responseBody[p] # NoneBody

\* C1: whenever Client.request has read a response with status code 500, it
\* returns ErrUnexpectedResponse and the container is as it was before the
\* call, whatever the body (not JSON, or JSON the container could hold) and
\* with or without a container.
C1_Status500 ==
    \A p \in Procs :
        (bodyRead(p) /\ response[p].StatusCode = 500)
            => /\ err[p] = ErrUnexpectedResponse
               /\ v[p] = ZeroOf(v[p])

C1_Witness ==
    \E p \in Procs :
        /\ pc[p] = "returned"
        /\ response[p].StatusCode = 500
        /\ responseBody[p] = ListBody(1)
        /\ v[p] = ZeroList

\* C2: with a container, a body that decodes into it and a status code other
\* than 200, 201 and 500, Client.request returns ErrResponse and the
\* container holds what the body decodes to.
C2_ErrorAfterDecode ==
    \A p \in Procs :
        (/\ bodyRead(p)
         /\ v[p].kind # "nil"
         /\ response[p].StatusCode \notin {200, 201, 500}
         /\ Unmarshal(responseBody[p], ZeroOf(v[p])).err = nil)
            => /\ err[p] = ErrResponse
               /\ v[p] = Unmarshal(responseBody[p], ZeroOf(v[p])).v
               /\ (responseBody[p] = ListBody(1) /\ v[p].kind = "list"
                      => v[p].Data = <<"x">>)
               /\ (responseBody[p] = ObjectBody /\ v[p].kind = "object"
                      => v[p].ID = "x")

C2_Witness ==
    \E p \in Procs :
        /\ pc[p] = "returned"
        /\ response[p].StatusCode = 404
        /\ responseBody[p] = ListBody(1)
        /\ v[p].Data = <<"x">>
        /\ err[p] = ErrResponse

\* C3: Client.request returns no error exactly when the transport and the
\* body read succeeded, the status code is 200 or 201 and the body decoded
\* into the container (or there is none), and then the container holds the
\* decoded fields; under the same conditions every other status code but 500
\* gives ErrResponse.
decodes(p) ==
    v[p].kind = "nil" \/ Unmarshal(responseBody[p], ZeroOf(v[p])).err = nil

C3_SuccessIff ==
    \A p \in Procs :
        requestReturned(p)
            => /\ err[p] = nil
                   <=> /\ bodyRead(p)
                       /\ response[p].StatusCode \in {200, 201}
                       /\ decodes(p)
               /\ err[p] = nil /\ v[p].kind # "nil"
                   => v[p] = Unmarshal(responseBody[p], ZeroOf(v[p])).v
               /\ (bodyRead(p) /\ decodes(p)
                   /\ response[p].StatusCode \notin {200, 201, 500})
                   => err[p] = ErrResponse

C3_Witness ==
    \E p \in Procs :
        /\ pc[p] = "returned"
        /\ response[p].StatusCode = 201
        /\ responseBody[p] = ListBody(1)
        /\ v[p].Data = <<"x">>
        /\ err[p] = nil

\* C4: with a container, a status code other than 500 and a body that is not
\* JSON, Client.request returns the decode error, which is none of nil,
\* ErrResponse and ErrUnexpectedResponse, whatever the status code.
C4_DecodeErrorNotMasked ==
    \A p \in Procs :
        (/\ bodyRead(p)
         /\ v[p].kind # "nil"
         /\ response[p].StatusCode # 500
         /\ responseBody[p] = NotJSON)
            => /\ err[p] = SyntaxError
               /\ err[p] \notin {nil, ErrResponse, ErrUnexpectedResponse}

C4_Witness ==
    \E p \in Procs :
        /\ pc[p] = "returned"
        /\ response[p].StatusCode \in {200, 404}
        /\ v[p].kind # "nil"
        /\ responseBody[p] = NotJSON
        /\ err[p] = SyntaxError

----------------------------------------------------------------------------
(* Properties of the resource methods' returns *)

\* C5: no resource method swallows ErrResponse: when Client.request returned
\* ErrResponse and the method returns a result, it returns that error with it,
\* never a nil error.
C5_NothingSwallowed ==
    \A p \in Procs :
        (pc[p] = "done" /\ sends[p] > 0 /\ err[p] = ErrResponse /\ ret[p].kind # "panic")
            => ret[p].err = ErrResponse

----------------------------------------------------------------------------
(* Properties of the request builders *)

built(p) == req[p] # NoRequest

\* C6: every request a builder returned carries Accept: application/json,
\* Authorization: "AccessKey " followed by the client's AccessKey, and a
\* User-Agent <client-name>/<version> <runtime>/<runtime-version>, each once.
C6_CommonHeaders ==
    \A p \in Procs :
        built(p) =>
            LET h == req[p].Header IN
            /\ {"Accept", "Authorization", "User-Agent"} \subseteq DOMAIN h
            /\ h["Accept"] = << <<"application/json">> >>
            /\ h["Authorization"] = << <<"AccessKey ">> \o client.AccessKey >>
            /\ Len(h["User-Agent"]) = 1
            /\ LET ua == h["User-Agent"][1] IN
                 /\ Len(ua) = 7
                 /\ ua[1] = "MessageBird/ApiClient" /\ ua[2] = "/" /\ ua[3] = ClientVersion
                 /\ ua[4] = " "
                 /\ ua[5] = "Go" /\ ua[6] = "/" /\ ua[7] = runtimeVersion

C6_Witness ==
    \E p \in Procs :
        /\ built(p)
        /\ call[p].name = "NewWebhook"
        /\ client.AccessKey = <<"k", "2">>
        /\ req[p].Header["Authorization"] = << <<"AccessKey ", "k", "2">> >>

\* C7: in every request a resource method builds, absent params give no body
\* and no Content-Type, a form collection gives its form encoding with
\* Content-Type application/x-www-form-urlencoded, and a structured payload
\* gives its JSON with Content-Type application/json.
C7_BodyFollowsParams ==
    \A p \in Procs :
        built(p) =>
            LET params == call[p].params
                r      == req[p]
            IN  /\ params.nil
                    => ~r.Body.present /\ "Content-Type" \notin DOMAIN r.Header
                /\ (~params.nil /\ params.kind = "form")
                    => /\ r.Body = BodyOf(Encode(params.values))
                       /\ "Content-Type" \in DOMAIN r.Header
                       /\ r.Header["Content-Type"]
                              = << <<"application/x-www-form-urlencoded">> >>
                /\ (~params.nil /\ params.kind = "json")
                    => /\ r.Body = BodyOf(Marshal(params))
                       /\ "Content-Type" \in DOMAIN r.Header
                       /\ r.Header["Content-Type"] = << <<"application/json">> >>

\* C8: the method of every request a resource method builds is one of GET,
\* POST and DELETE, and DeleteWebhook's is DELETE.
C8_MethodEnumerated ==
    \A p \in Procs :
        built(p) => /\ req[p].Method \in {"GET", "POST", "DELETE"}
                    /\ call[p].name = "DeleteWebhook" => req[p].Method = "DELETE"

\* url.ParseQuery, the decoder of a form body: the pairs between "&", each
\* cut at its first "=", both halves unescaped; a pair with a bad escape is
\* dropped and reported.
RECURSIVE indexOf(_, _, _)
indexOf(s, c, i) ==
    IF i > Len(s) THEN 0 ELSE IF s[i] = c THEN i ELSE indexOf(s, c, i + 1)

cut(s, sep) ==
    LET i == indexOf(s, sep, 1) IN
    IF i = 0 THEN [before |-> s, after |-> <<>>]
    ELSE [before |-> SubSeq(s, 1, i - 1), after |-> SubSeq(s, i + 1, Len(s))]

RECURSIVE parsePairs(_)
parsePairs(query) ==
    IF query = <<>> THEN <<>>
    ELSE LET c  == cut(query, "&")
             kv == cut(c.before, "=")
             k  == QueryUnescape(kv.before)
             w  == QueryUnescape(kv.after)
         IN  (IF c.before = <<>> THEN <<>>
              ELSE <<[key |-> k.s, value |-> w.s, ok |-> k.err = nil /\ w.err = nil]>>)
             \o parsePairs(c.after)

ParseQuery(query) ==
    LET all  == parsePairs(query)
        good == SelectSeq(all, LAMBDA x : x.ok)
        of(k) == SelectSeq(good, LAMBDA x : x.key = k)
    IN  [values |-> [k \in {good[i].key : i \in 1..Len(good)}
                        |-> [i \in 1..Len(of(k)) |-> of(k)[i].value]],
         err    |-> IF Len(good) = Len(all) THEN nil ELSE EscapeError]

\* The supplied collection, its keys as text.
supplied(values) == [k \in {<<key>> : key \in DOMAIN values} |-> values[k[1]]]

\* C9: the body of a request built from a form collection, once URL-decoded,
\* holds exactly the supplied key/value pairs.
C9_FormRoundTrip ==
    \A p \in Procs :
        (built(p) /\ call[p].params.kind = "form" /\ ~call[p].params.nil)
            => ParseQuery(req[p].Body.bytes)
                   = [values |-> supplied(call[p].params.values), err |-> nil]

C9_Witness ==
    \E p \in Procs :
        /\ built(p)
        /\ call[p].name = "NewMessage"
        /\ DOMAIN call[p].params.values
               = {"body", "originator", "recipients", "reference", "type"}
        /\ call[p].params.values["body"] = << <<" ", "+", "%", ",">> >>
        /\ call[p].params.values["originator"] = << <<"a", "&", "b", "=">> >>
        /\ ParseQuery(req[p].Body.bytes).values[<<"body">>] = << <<" ", "+", "%", ",">> >>

----------------------------------------------------------------------------
(* Concurrent use of one Client *)

\* What call p's own request and response give when the call runs alone.
alone(p) ==
    IF response[p] = NoResponse THEN [v |-> ZeroOf(v[p]), err |-> TransportError]
    ELSE IF ~response[p].readable THEN [v |-> ZeroOf(v[p]), err |-> ReadError]
    ELSE classify(ZeroOf(v[p]), response[p].StatusCode, response[p].Body)

sameAsAlone ==
    \A p \in Procs :
        /\ requestReturned(p) => err[p] = alone(p).err /\ v[p] = alone(p).v
        /\ (pc[p] = "done" /\ sends[p] > 0)
               => ret[p] = return(call[p], alone(p).v, alone(p).err)

\* A step leaves the client as it was, and leaves every call that did not
\* take the step as it was.
noSharedWrite ==
    /\ client' = client
    /\ \A p \in Procs :
           pc'[p] = pc[p]
               => /\ call'[p] = call[p] /\ req'[p] = req[p] /\ v'[p] = v[p]
                  /\ response'[p] = response[p] /\ responseBody'[p] = responseBody[p]
                  /\ err'[p] = err[p] /\ ret'[p] = ret[p] /\ sends'[p] = sends[p]

\* C10: under every interleaving of concurrent calls on one client, no step
\* writes the client or another call's state, and each call's returned error
\* and container are what its own request and response give when it runs
\* alone.
C10_ConcurrentCallsIndependent == []sameAsAlone /\ [][noSharedWrite]_vars

C10_Witness ==
    \E p, q \in Procs :
        /\ p # q
        /\ pc[p] = "done" /\ pc[q] = "printed"
        /\ sends[p] = 1 /\ sends[q] = 1
        /\ responseBody[p] = ListBody(1) /\ responseBody[q] = NotJSON
        /\ out[Len(out)].body = NotJSON
        /\ ret[p].kind = "value" /\ ret[p].err = nil

----------------------------------------------------------------------------
(* Sends, panics, output and nil results *)

\* Call p's request met a transport failure, or its body stream broke.
transportFailed(p) == requestReturned(p) /\ response[p] = NoResponse
readFailed(p) == requestReturned(p) /\ response[p] # NoResponse /\ ~response[p].readable

\* C11: a call enters HTTPClient.Do at most once: never when the request could
\* not be built, in which case the build error is returned, once otherwise,
\* and not again after a transport failure, a body-read failure or any status
\* code; a transport or body-read failure returns the underlying error and
\* leaves the container untouched.
C11_AtMostOneSend ==
    \A p \in Procs :
        /\ sends[p] <= 1
        /\ sends[p] = 1 <=> pc[p] \in {"sent", "read", "printed", "returned"}
                            \/ (pc[p] = "done" /\ built(p))
        /\ (pc[p] = "done" /\ ~built(p))
               => /\ sends[p] = 0
                  /\ response[p] = NoResponse
                  /\ ret[p].err \in {EscapeError, ParamsError}
        /\ transportFailed(p) => err[p] = TransportError /\ v[p] = ZeroOf(v[p])
        /\ readFailed(p) => err[p] = ReadError /\ v[p] = ZeroOf(v[p])
        /\ (pc[p] = "done" /\ (transportFailed(p) \/ readFailed(p)))
               => ret[p].err = err[p]

C11_Witness ==
    \E p \in Procs :
        /\ pc[p] = "done"
        /\ transportFailed(p)
        /\ sends[p] = 1
        /\ v[p] = ZeroList
        /\ ret[p].err = TransportError

\* C12: no single-resource voice method indexes an empty Data: when
\* Client.request returned success or ErrResponse and the decoded list is
\* empty, the method returns an error.
C12_NoOutOfBounds ==
    \A p \in Procs :
        (/\ pc[p] = "done"
         /\ call[p].single
         /\ sends[p] > 0
         /\ err[p] \in {nil, ErrResponse}
         /\ v[p].Data = <<>>)
            => /\ ret[p].kind # "panic"
               /\ ret[p].err # nil

\* C13: Client.request writes the response body to the output only when the
\* client has a debug logger; without one nothing is written, and the error
\* and container it returns do not depend on the logger.
C13_SilentWithoutDebugLog ==
    /\ ~client.DebugLog => out = <<>>
    /\ \A p \in Procs :
           requestReturned(p) => err[p] = alone(p).err /\ v[p] = alone(p).v

\* C14: a resource method with a result returns nil and the error itself when
\* the call failed with anything but ErrResponse (a build failure, a
\* transport or read failure, ErrUnexpectedResponse, a decode error); it
\* returns a result only on success or ErrResponse.
C14_NilResultOnOtherErrors ==
    \A p \in Procs :
        (pc[p] = "done" /\ ~call[p].errOnly)
            => /\ ~built(p)
                   => /\ ret[p].kind = "nil" /\ ret[p].value = NoContainer
                      /\ ret[p].err \in {EscapeError, ParamsError}
               /\ (built(p) /\ err[p] \notin {nil, ErrResponse})
                   => /\ ret[p].kind = "nil" /\ ret[p].value = NoContainer
                      /\ ret[p].err = err[p]
               /\ ret[p].kind = "value"
                   => built(p) /\ err[p] \in {nil, ErrResponse}

C14_Witness ==
    \E p \in Procs :
        /\ pc[p] = "done"
        /\ call[p].name = "NewCall"
        /\ response[p].StatusCode = 200
        /\ responseBody[p] = DataNotList
        /\ err[p] = UnmarshalTypeError
        /\ ret[p] = Returned("nil", NoContainer, UnmarshalTypeError)

====
